---- MODULE Spec2Model ----
(***************************************************************************)
(* A model of the lexer of src/main.rs: a Lexer owns a cursor over the     *)
(* source text and next_token pulls one token per call.                    *)
(*                                                                         *)
(* A character is a one-character string, a text a sequence of characters. *)
(* An Option<char> is a sequence of length 0 (None) or 1 (Some(c)).        *)
(* The cursor of the Peekable<Chars> iterator is the number of characters  *)
(* already taken from it (pos).                                            *)
(***************************************************************************)
EXTENDS Integers, Sequences, FiniteSets, TLC

\* ------------------------------------------------------------------ bounds
\* longest enumerated source text
MaxLen == 3
\* most next_token calls made on one Lexer
MaxCalls == 11
\* most peek_char calls made between two next_token calls
MaxPeeks == 2

\* ---------------------------------------------------------- character classes
\* char::is_alphabetic, on the characters of the model
Alphabetic == {"l", "e", "t", "x", "s", "a", "b", "c", "L"}

\* char::is_digit(10)
Digits == {"0", "1", "2", "3", "4", "5", "6", "7", "8", "9"}

\* char::is_whitespace, on the characters of the model
Whitespace == {" ", "\t", "\n"}

is_alphabetic(c) == c \in Alphabetic

\* a digit test that also takes '.'
is_digit_dot(c) == c \in Digits \cup {"."}

is_digit(c) == c \in Digits

is_alphanumeric(c) == is_alphabetic(c) \/ is_digit(c)

is_whitespace(c) == c \in Whitespace

\* a word-start test that also takes digits
is_letter_digit(c) == is_alphabetic(c) \/ c = "_" \/ is_digit(c)

is_letter(c) == is_alphabetic(c) \/ c = "_"

\* ---------------------------------------------------------------- tokens
Identifier(s) == [type |-> "Identifier", text |-> s]

NumberLiteral(v) == [type |-> "NumberLiteral", value |-> v]

Plus == [type |-> "Plus"]

Minus == [type |-> "Minus"]

Star == [type |-> "Star"]

Slash == [type |-> "Slash"]

Caret == [type |-> "Caret"]

Equal == [type |-> "Equal"]

SemiColon == [type |-> "SemiColon"]

LParen == [type |-> "LParen"]

RParen == [type |-> "RParen"]

Let == [type |-> "Let"]

\* Option<Token>::None, the end-of-sequence signal of next_token
None == [type |-> "None"]

\* ---------------------------------------------------------------- cursor
\* a peek that takes the character it returns
peek_char_advance(txt, p) ==
    IF p < Len(txt) THEN [pos |-> p + 1, val |-> <<txt[p + 1]>>]
                    ELSE [pos |-> p, val |-> <<>>]

\* the next character, and the cursor after looking at it (unmoved)
peek_char(txt, p) ==
    IF p < Len(txt) THEN [pos |-> p, val |-> <<txt[p + 1]>>]
                    ELSE [pos |-> p, val |-> <<>>]

\* a read that moves the cursor past two characters
read_char_skip(txt, p) ==
    IF p < Len(txt) THEN [pos |-> p + 2, val |-> <<txt[p + 1]>>]
                    ELSE [pos |-> p, val |-> <<>>]

\* the next character, and the cursor after taking it
read_char(txt, p) ==
    IF p < Len(txt) THEN [pos |-> p + 1, val |-> <<txt[p + 1]>>]
                    ELSE [pos |-> p, val |-> <<>>]

\* ---------------------------------------------------------------- keyword
\* a lookup that matches "let" as a prefix
lookup_keyword_prefix(key) ==
    IF Len(key) >= 3 /\ SubSeq(key, 1, 3) = <<"l", "e", "t">>
    THEN Let ELSE Identifier(key)

lookup_keyword(key) ==
    IF key = <<"l", "e", "t">> THEN Let ELSE Identifier(key)

\* ------------------------------------------------------------- whitespace
\* a skip that discards one whitespace character only
skip_loop_once(txt, p, skipped) ==
    LET pk == peek_char(txt, p) IN
    IF pk.val # <<>> /\ is_whitespace(pk.val[1])
    THEN LET r == read_char(txt, pk.pos) IN [pos |-> r.pos, skipped |-> skipped \o r.val]
    ELSE [pos |-> pk.pos, skipped |-> skipped]

RECURSIVE skip_loop(_, _, _)
\* the loop of skip_whitespace; skipped collects the characters it discards
skip_loop(txt, p, skipped) ==
    LET pk == peek_char(txt, p) IN
    IF pk.val # <<>> /\ is_whitespace(pk.val[1])
    THEN LET r == read_char(txt, pk.pos) IN skip_loop(txt, r.pos, skipped \o r.val)
    ELSE [pos |-> pk.pos, skipped |-> skipped]

\* a next_token that skips nothing
skip_whitespace_none(txt, p) == [pos |-> p, skipped |-> <<>>]

skip_whitespace(txt, p) == skip_loop(txt, p, <<>>)

\* ------------------------------------------------------------- identifier
RECURSIVE read_identifier_drop(_, _, _)
\* a scan that advances past a continuing character without pushing it
read_identifier_drop(txt, p, identifiers) ==
    LET pk == peek_char(txt, p) IN
    IF pk.val # <<>> /\ (is_alphanumeric(pk.val[1]) \/ pk.val[1] = "_")
    THEN LET r == read_char(txt, pk.pos) IN
         read_identifier_drop(txt, r.pos, identifiers)
    ELSE [pos |-> pk.pos, str |-> identifiers]

RECURSIVE read_identifier_greedy(_, _, _)
\* a scan that reads, instead of peeking, the character that ends the run
read_identifier_greedy(txt, p, identifiers) ==
    LET r == read_char(txt, p) IN
    IF r.val # <<>> /\ (is_alphanumeric(r.val[1]) \/ r.val[1] = "_")
    THEN read_identifier_greedy(txt, r.pos, identifiers \o r.val)
    ELSE [pos |-> r.pos, str |-> identifiers]

RECURSIVE read_identifier_alpha(_, _, _)
\* a scan that continues on word-start characters only
read_identifier_alpha(txt, p, identifiers) ==
    LET pk == peek_char(txt, p) IN
    IF pk.val # <<>> /\ is_letter(pk.val[1])
    THEN LET r == read_char(txt, pk.pos) IN
         read_identifier_alpha(txt, r.pos, identifiers \o r.val)
    ELSE [pos |-> pk.pos, str |-> identifiers]

RECURSIVE read_identifier(_, _, _)
\* the loop of read_identifier; identifiers starts as <<c>>
read_identifier(txt, p, identifiers) ==
    LET pk == peek_char(txt, p) IN
    IF pk.val # <<>> /\ (is_alphanumeric(pk.val[1]) \/ pk.val[1] = "_")
    THEN LET r == read_char(txt, pk.pos) IN
         read_identifier(txt, r.pos, identifiers \o r.val)
    ELSE [pos |-> pk.pos, str |-> identifiers]

\* ----------------------------------------------------------------- number
DigitValue(c) ==
    CASE c = "0" -> 0 [] c = "1" -> 1 [] c = "2" -> 2 [] c = "3" -> 3
      [] c = "4" -> 4 [] c = "5" -> 5 [] c = "6" -> 6 [] c = "7" -> 7
      [] c = "8" -> 8 [] c = "9" -> 9

RECURSIVE DigitsToInt(_)
\* the integer a sequence of decimal digits writes
DigitsToInt(ds) ==
    IF ds = <<>> THEN 0
    ELSE 10 * DigitsToInt(SubSeq(ds, 1, Len(ds) - 1)) + DigitValue(ds[Len(ds)])

RECURSIVE Normalize(_, _)
\* num / 10^exp without trailing zeros in the fraction
Normalize(num, exp) ==
    IF exp > 0 /\ num % 10 = 0 THEN Normalize(num \div 10, exp - 1)
    ELSE [num |-> num, exp |-> exp]

DotsOf(s) == {i \in 1..Len(s) : s[i] = "."}

\* a parse that wants a digit after the '.'
parse_f64_strict(s) ==
    LET dots == DotsOf(s)
        digits == SelectSeq(s, is_digit)
    IN IF Cardinality(dots) > 1 \/ digits = <<>> \/ Len(digits) + Cardinality(dots) # Len(s)
          \/ s[Len(s)] = "."
       THEN [ok |-> FALSE]
       ELSE LET d == IF dots = {} THEN Len(s) + 1 ELSE CHOOSE i \in dots : TRUE
                frac == Len(s) - d
            IN [ok |-> TRUE,
                value |-> Normalize(DigitsToInt(digits), IF frac > 0 THEN frac ELSE 0)]

\* str::parse::<f64> on a text of digits and '.': Err unless it has at least
\* one digit and at most one '.'; the value is written as num / 10^exp (a
\* decimal of up to 15 significant digits determines its f64)
parse_f64(s) ==
    LET dots == DotsOf(s)
        digits == SelectSeq(s, is_digit)
    IN IF Cardinality(dots) > 1 \/ digits = <<>> \/ Len(digits) + Cardinality(dots) # Len(s)
       THEN [ok |-> FALSE]
       ELSE LET d == IF dots = {} THEN Len(s) + 1 ELSE CHOOSE i \in dots : TRUE
                frac == Len(s) - d
            IN [ok |-> TRUE,
                value |-> Normalize(DigitsToInt(digits), IF frac > 0 THEN frac ELSE 0)]

RECURSIVE number_loop_digits(_, _, _)
\* a scan that takes decimal digits only
number_loop_digits(txt, p, number) ==
    LET pk == peek_char(txt, p) IN
    IF pk.val # <<>> /\ is_digit(pk.val[1])
    THEN LET r == read_char(txt, pk.pos) IN
         number_loop_digits(txt, r.pos, number \o r.val)
    ELSE [pos |-> pk.pos, str |-> number]

RECURSIVE number_loop_onedot(_, _, _)
\* a scan that stops at a second '.'
number_loop_onedot(txt, p, number) ==
    LET pk == peek_char(txt, p) IN
    IF pk.val # <<>> /\ (is_digit(pk.val[1]) \/ (pk.val[1] = "." /\ DotsOf(number) = {}))
    THEN LET r == read_char(txt, pk.pos) IN
         number_loop_onedot(txt, r.pos, number \o r.val)
    ELSE [pos |-> pk.pos, str |-> number]

RECURSIVE number_loop(_, _, _)
\* the loop of read_number; number starts as <<c>>
number_loop(txt, p, number) ==
    LET pk == peek_char(txt, p) IN
    IF pk.val # <<>> /\ (is_digit(pk.val[1]) \/ pk.val[1] = ".")
    THEN LET r == read_char(txt, pk.pos) IN number_loop(txt, r.pos, number \o r.val)
    ELSE [pos |-> pk.pos, str |-> number]

\* read_number: the run, the cursor after it, and the parse; unwrap panics
\* when the parse is an Err
read_number(txt, p, c) ==
    LET n == number_loop(txt, p, <<c>>)
        parsed == parse_f64(n.str)
    IN [pos |-> n.pos, str |-> n.str, panic |-> ~parsed.ok,
        value |-> IF parsed.ok THEN parsed.value ELSE [num |-> 0, exp |-> 0]]

\* ------------------------------------------------------------- next_token
\* a match whose '(' and ')' arms are exchanged
SingleCharParens ==
    [c \in {"=", "+", "-", "*", "/", "^", ";", "(", ")"} |->
        CASE c = "=" -> Equal [] c = "+" -> Plus [] c = "-" -> Minus
          [] c = "*" -> Star [] c = "/" -> Slash [] c = "^" -> Caret
          [] c = ";" -> SemiColon [] c = "(" -> RParen [] c = ")" -> LParen]

\* a match whose '+' and '-' arms are exchanged
SingleCharSwapped ==
    [c \in {"=", "+", "-", "*", "/", "^", ";", "(", ")"} |->
        CASE c = "=" -> Equal [] c = "+" -> Minus [] c = "-" -> Plus
          [] c = "*" -> Star [] c = "/" -> Slash [] c = "^" -> Caret
          [] c = ";" -> SemiColon [] c = "(" -> LParen [] c = ")" -> RParen]

\* the tokens of the single-character arms of the match
SingleChar ==
    [c \in {"=", "+", "-", "*", "/", "^", ";", "(", ")"} |->
        CASE c = "=" -> Equal [] c = "+" -> Plus [] c = "-" -> Minus
          [] c = "*" -> Star [] c = "/" -> Slash [] c = "^" -> Caret
          [] c = ";" -> SemiColon [] c = "(" -> LParen [] c = ")" -> RParen]

\* a next_token that drops the rest of the text at an unrecognized character
next_token_drain(txt, p) ==
    LET sk == skip_whitespace(txt, p)
        r == read_char(txt, sk.pos)
    IN IF r.val = <<>>
       THEN [pos |-> r.pos, panic |-> FALSE, result |-> None,
             ws |-> sk.skipped, span |-> <<>>]
       ELSE LET c == r.val[1] IN
            IF c \in DOMAIN SingleChar
            THEN [pos |-> r.pos, panic |-> FALSE, result |-> SingleChar[c],
                  ws |-> sk.skipped, span |-> <<c>>]
            ELSE IF is_letter(c)
            THEN LET id == read_identifier(txt, r.pos, <<c>>) IN
                 [pos |-> id.pos, panic |-> FALSE,
                  result |-> lookup_keyword(id.str),
                  ws |-> sk.skipped, span |-> id.str]
            ELSE IF is_digit(c)
            THEN LET n == read_number(txt, r.pos, c) IN
                 [pos |-> n.pos, panic |-> n.panic,
                  result |-> NumberLiteral(n.value),
                  ws |-> sk.skipped, span |-> n.str]
            ELSE [pos |-> Len(txt), panic |-> FALSE, result |-> None,
                  ws |-> sk.skipped, span |-> <<c>>]

\* one call of next_token from cursor p: the cursor after it, whether it
\* panicked, its result, the whitespace it skipped and the characters it
\* committed to the result (span)
next_token(txt, p) ==
    LET sk == skip_whitespace(txt, p)
        r == read_char(txt, sk.pos)
    IN IF r.val = <<>>
       THEN [pos |-> r.pos, panic |-> FALSE, result |-> None,
             ws |-> sk.skipped, span |-> <<>>]
       ELSE LET c == r.val[1] IN
            IF c \in DOMAIN SingleChar
            THEN [pos |-> r.pos, panic |-> FALSE, result |-> SingleChar[c],
                  ws |-> sk.skipped, span |-> <<c>>]
            ELSE IF is_letter(c)
            THEN LET id == read_identifier(txt, r.pos, <<c>>) IN
                 [pos |-> id.pos, panic |-> FALSE,
                  result |-> lookup_keyword(id.str),
                  ws |-> sk.skipped, span |-> id.str]
            ELSE IF is_digit(c)
            THEN LET n == read_number(txt, r.pos, c) IN
                 [pos |-> n.pos, panic |-> n.panic,
                  result |-> NumberLiteral(n.value),
                  ws |-> sk.skipped, span |-> n.str]
            ELSE [pos |-> r.pos, panic |-> FALSE, result |-> None,
                  ws |-> sk.skipped, span |-> <<c>>]

\* ------------------------------------------------------------------- main
RECURSIVE main_loop(_, _, _)
\* the loop of main: pull and print until next_token returns None
main_loop(txt, p, printed) ==
    LET t == next_token(txt, p) IN
    IF t.panic THEN [printed |-> printed, exit |-> "panic"]
    ELSE IF t.result = None THEN [printed |-> printed, exit |-> "ok"]
    ELSE main_loop(txt, t.pos, Append(printed, t.result))

\* ------------------------------------------------------------ source texts
Alphabet == {"l", "e", "t", "L", "_", "1", "2", ".", "+", " ", "@"}

LetStmt == <<"l", "e", "t", " ", "x", " ", "=", " ", "3", " ", "+", " ", "4", ";">>

ParenExpr == <<"(", "a", "*", "b", ")", "/", "c", "^", "2">>

Scenarios ==
    { LetStmt, ParenExpr,
      <<"l", "e", "t", "x">>, <<"l", "e", "t", "s">>,
      <<"l", "e", "t", " ", "l", "e", "t", "s">>,
      <<"1", ".", "2", ".", "3">>, <<"3", ".", "1", "4">>, <<"4", "2">>,
      <<"3", ".">>, <<"2", "x">>, <<"x", "2">>, <<"x", ".", "5">>,
      <<"=", "=", "-", ";">>, <<"\t", "x", "2", "\n">>, <<"0", "5", ".", "5", "0">> }

Texts == UNION {[1..n -> Alphabet] : n \in 0..MaxLen} \cup Scenarios

\* ------------------------------------------------------------------ state
VARIABLES
    text,      \* the source text the Lexer was constructed over
    pos,       \* the cursor: characters taken from input_iter so far
    hist,      \* one record per next_token call that returned
    panicked,  \* the process panicked (unwrap of a parse error)
    peeks      \* what the peek_char calls since the last next_token returned

vars == <<text, pos, hist, panicked, peeks>>

\* Lexer::new over any source text
Init ==
    /\ text \in Texts
    /\ pos = 0
    /\ hist = <<>>
    /\ panicked = FALSE
    /\ peeks = <<>>

\* one call of next_token by the Lexer's caller
NextToken ==
    /\ ~panicked
    /\ Len(hist) < MaxCalls
    /\ LET t == next_token(text, pos) IN
       /\ pos' = t.pos
       /\ panicked' = t.panic
       /\ hist' = IF t.panic THEN hist
                  ELSE Append(hist, [start |-> pos, ws |-> t.ws,
                                     span |-> t.span, result |-> t.result])
    /\ peeks' = <<>>
    /\ UNCHANGED text

\* one call of peek_char between two calls of next_token
PeekChar ==
    /\ ~panicked
    /\ Len(peeks) < MaxPeeks
    /\ LET pk == peek_char(text, pos) IN
       /\ pos' = pk.pos
       /\ peeks' = Append(peeks, pk.val)
    /\ UNCHANGED <<text, hist, panicked>>

Next == NextToken \/ PeekChar

Spec == Init /\ [][Next]_vars

TypeOK ==
    /\ text \in Texts
    /\ pos \in 0..Len(text)
    /\ panicked \in BOOLEAN
    /\ Len(hist) <= MaxCalls
    /\ Len(peeks) <= MaxPeeks

\* --------------------------------------------------- reading the history
\* the characters call i committed start in the text after this position
SpanStart(i) == hist[i].start + Len(hist[i].ws)

\* the cursor after call i
SpanEnd(i) == SpanStart(i) + Len(hist[i].span)

\* the committed character of call i matched no branch of the dispatch
Rejected(i) ==
    /\ hist[i].span # <<>>
    /\ hist[i].span[1] \notin DOMAIN SingleChar
    /\ ~is_letter(hist[i].span[1])
    /\ ~is_digit(hist[i].span[1])

\* call i scanned an identifier
ScannedIdentifier(i) == hist[i].span # <<>> /\ is_letter(hist[i].span[1])

\* call i scanned a number
ScannedNumber(i) == hist[i].span # <<>> /\ is_digit(hist[i].span[1])

\* the cursor when the last call that returned had finished
LastEnd == IF hist = <<>> THEN 0 ELSE SpanEnd(Len(hist))

RECURSIVE Consumed(_)
\* the skipped whitespace and the spans of the first n calls, in order
Consumed(n) ==
    IF n = 0 THEN <<>> ELSE Consumed(n - 1) \o hist[n].ws \o hist[n].span

\* the value num / 10^exp
Dec(num, exp) == [num |-> num, exp |-> exp]

RECURSIVE Pow10(_)
Pow10(k) == IF k = 0 THEN 1 ELSE 10 * Pow10(k - 1)

\* ------------------------------------------------------------------ claims

\* C1: a number run that is not a valid float (as in "1.2.3") makes
\* next_token return an explicit malformed-number error result, distinct from
\* None and from every NumberLiteral; the process never panics.
MalformedNumberIsError ==
    /\ ~panicked
    /\ \A i \in 1..Len(hist) :
          (ScannedNumber(i) /\ Cardinality(DotsOf(hist[i].span)) > 1)
              => hist[i].result.type = "MalformedNumber"

\* C2: a committed character that matches no dispatch branch makes next_token
\* return an error value that carries the character and differs from the
\* result returned at end of input.
UnrecognizedIsError ==
    \A i \in 1..Len(hist) :
        Rejected(i) => /\ hist[i].result # None
                       /\ hist[i].result.type = "UnrecognizedCharacter"
                       /\ hist[i].result.char = hist[i].span[1]

\* C3: once a call of next_token has returned None, every later call on the
\* same Lexer returns None.
ExhaustionIsPermanent ==
    \A i \in 1..Len(hist) : \A j \in i..Len(hist) :
        hist[i].result = None => hist[j].result = None

\* C4: when next_token has been pulled to None over a text in which no
\* character is rejected by the dispatch, the cursor is at the end of the
\* text, every call started where the previous one stopped, every committed
\* span became exactly one token, and the skipped whitespace and the token
\* spans, concatenated in call order, are the text; a text of single-character
\* tokens, letters, underscores, digits and whitespace has no rejected
\* character and no panic.
DispatchChars == DOMAIN SingleChar \cup Alphabetic \cup {"_"} \cup Digits \cup Whitespace

NoneRejected == \A i \in 1..Len(hist) : ~Rejected(i)

PulledToEnd == hist # <<>> /\ hist[Len(hist)].result = None

Completeness ==
    /\ (PulledToEnd /\ NoneRejected) =>
          /\ ~panicked
          /\ pos = Len(text)
          /\ Consumed(Len(hist)) = text
          /\ \A i \in 1..Len(hist) :
                /\ hist[i].start = Len(Consumed(i - 1))
                /\ \A k \in 1..Len(hist[i].ws) : is_whitespace(hist[i].ws[k])
                /\ (hist[i].span # <<>>) <=> (hist[i].result # None)
    /\ (\A k \in 1..Len(text) : text[k] \in DispatchChars) =>
          (NoneRejected /\ ~panicked)

CompletenessWitness ==
    /\ PulledToEnd /\ NoneRejected
    /\ Len(hist) >= 3
    /\ \E i \in 1..Len(hist) : Len(hist[i].span) >= 2
    /\ \E i \in 1..Len(hist) : hist[i].ws # <<>>

\* C5: a scanned identifier text s gives Let exactly when s is "let" (whole
\* text, case-sensitive) and Identifier(s) with s unchanged otherwise: "let"
\* gives Let, "letx" and "lets" give Identifier("letx") and
\* Identifier("lets").
KeywordLookupExact ==
    /\ \A i \in 1..Len(hist) :
          ScannedIdentifier(i) =>
              /\ (hist[i].result = Let) <=> (hist[i].span = <<"l", "e", "t">>)
              /\ hist[i].result # Let => hist[i].result = [type |-> "Identifier", text |-> hist[i].span]
    /\ hist # <<>> =>
          /\ text = <<"l", "e", "t">> => hist[1].result = [type |-> "Let"]
          /\ text = <<"l", "e", "t", "x">> =>
                hist[1].result = [type |-> "Identifier", text |-> <<"l", "e", "t", "x">>]
          /\ text = <<"l", "e", "t", "s">> =>
                hist[1].result = [type |-> "Identifier", text |-> <<"l", "e", "t", "s">>]
          /\ text = <<"L", "e", "t">> =>
                hist[1].result = [type |-> "Identifier", text |-> <<"L", "e", "t">>]

KeywordLookupWitness ==
    /\ text = <<"l", "e", "t", " ", "l", "e", "t", "s">>
    /\ Len(hist) >= 2
    /\ hist[1].result.type = "Let"
    /\ hist[2].result.type = "Identifier"

\* C6: a text and the same text with one more whitespace character at a
\* place that is not inside a token's span give the same tokens when
\* next_token is pulled to None (longer runs, leading and trailing
\* whitespace and whitespace put between two adjacent tokens all arise from
\* such insertions).
InsertAt(txt, b, w) == SubSeq(txt, 1, b) \o <<w>> \o SubSeq(txt, b + 1, Len(txt))

\* the first None has just been returned: the loop of main stops here
MainFinished ==
    /\ PulledToEnd
    /\ \A i \in 1..(Len(hist) - 1) : hist[i].result # None

\* the places strictly inside the span of a call
InsideSpan == {b \in 0..Len(text) : \E i \in 1..Len(hist) : SpanStart(i) < b /\ b < SpanEnd(i)}

WhitespaceTransparency ==
    MainFinished =>
        \A b \in (0..Len(text)) \ InsideSpan : \A w \in Whitespace :
            main_loop(InsertAt(text, b, w), 0, <<>>) =
                [printed |-> [i \in 1..(Len(hist) - 1) |-> hist[i].result], exit |-> "ok"]

WhitespaceTransparencyWitness ==
    /\ MainFinished
    /\ Len(hist) >= 3
    /\ pos = Len(text)
    /\ \E b \in 1..(Len(text) - 1) :
          /\ b \notin InsideSpan
          /\ ~is_whitespace(text[b]) /\ ~is_whitespace(text[b + 1])
    /\ \E b \in 1..Len(text) : is_whitespace(text[b])

\* C7: "let x = 3 + 4;" gives Let, Identifier("x"), Equal, NumberLiteral(3.0),
\* Plus, NumberLiteral(4.0), SemiColon in this order and then None.
LetStmtTokens ==
    << [type |-> "Let"], [type |-> "Identifier", text |-> <<"x">>], [type |-> "Equal"],
       [type |-> "NumberLiteral", value |-> Dec(3, 0)], [type |-> "Plus"],
       [type |-> "NumberLiteral", value |-> Dec(4, 0)], [type |-> "SemiColon"] >>

LetStmtScenario ==
    text = LetStmt =>
        /\ ~panicked
        /\ \A i \in 1..Len(hist) :
              hist[i].result = IF i <= 7 THEN LetStmtTokens[i] ELSE [type |-> "None"]

LetStmtWitness == text = LetStmt /\ Len(hist) >= 8

\* C8: "(a*b)/c^2" gives LParen, Identifier("a"), Star, Identifier("b"),
\* RParen, Slash, Identifier("c"), Caret, NumberLiteral(2.0) in this order and
\* then None.
ParenExprTokens ==
    << [type |-> "LParen"], [type |-> "Identifier", text |-> <<"a">>], [type |-> "Star"],
       [type |-> "Identifier", text |-> <<"b">>], [type |-> "RParen"], [type |-> "Slash"],
       [type |-> "Identifier", text |-> <<"c">>], [type |-> "Caret"],
       [type |-> "NumberLiteral", value |-> Dec(2, 0)] >>

ParenExprScenario ==
    text = ParenExpr =>
        /\ ~panicked
        /\ \A i \in 1..Len(hist) :
              hist[i].result = IF i <= 9 THEN ParenExprTokens[i] ELSE [type |-> "None"]

ParenExprWitness == text = ParenExpr /\ Len(hist) >= 10

\* C9: over the empty text, and over a text of whitespace only, the first
\* call of next_token returns None and no call returns a token; the first
\* call skips all of the whitespace and commits no character.
OnlyWhitespace == \A k \in 1..Len(text) : is_whitespace(text[k])

EmptyYieldsEnd ==
    (OnlyWhitespace /\ hist # <<>>) =>
        /\ hist[1].result = [type |-> "None"]
        /\ hist[1].ws = text
        /\ hist[1].span = <<>>
        /\ pos = Len(text)
        /\ \A i \in 1..Len(hist) : hist[i].result = [type |-> "None"]

EmptyYieldsEndWitness ==
    /\ OnlyWhitespace
    /\ Len(text) >= 2
    /\ Len(hist) >= 2

\* C10: a call that commits a decimal digit takes the whole run of digits and
\* '.' that follows; when the run has at most one '.', the call returns one
\* NumberLiteral whose value is the decimal the run writes, and there is no
\* panic; "3.14" gives NumberLiteral(3.14) and "42" gives NumberLiteral(42.0).
FractionDigits(s) ==
    IF DotsOf(s) = {} THEN 0 ELSE Len(s) - (CHOOSE d \in DotsOf(s) : TRUE)

NumericFidelity ==
    /\ \A i \in 1..Len(hist) :
          ScannedNumber(i) =>
              LET s == hist[i].span
                  v == hist[i].result.value
              IN /\ \A k \in 1..Len(s) : is_digit(s[k]) \/ s[k] = "."
                 /\ SpanEnd(i) < Len(text) =>
                       ~(is_digit(text[SpanEnd(i) + 1]) \/ text[SpanEnd(i) + 1] = ".")
                 /\ Cardinality(DotsOf(s)) <= 1
                 /\ hist[i].result.type = "NumberLiteral"
                 /\ v.num * Pow10(FractionDigits(s)) =
                        DigitsToInt(SelectSeq(s, is_digit)) * Pow10(v.exp)
                 /\ v.exp > 0 => v.num % 10 # 0
    /\ panicked => Cardinality(DotsOf(SubSeq(text, LastEnd + 1, pos))) >= 2
    /\ (text = <<"3", ".", "1", "4">> /\ hist # <<>>) =>
          hist[1].result = [type |-> "NumberLiteral", value |-> Dec(314, 2)]
    /\ (text = <<"4", "2">> /\ hist # <<>>) =>
          hist[1].result = [type |-> "NumberLiteral", value |-> Dec(42, 0)]

NumericFidelityWitness ==
    /\ text = <<"3", ".", "1", "4">>
    /\ Len(hist) >= 1
    /\ hist[1].result.type = "NumberLiteral"

\* C11: every call of next_token completes, every call that returns a token
\* moves the cursor forward by at least one character, and over a text of n
\* characters at most n calls return a token.
TokenCalls == {i \in 1..Len(hist) : hist[i].result # None}

PullLoopTerminates ==
    /\ ~panicked
    /\ \A i \in TokenCalls : SpanEnd(i) > hist[i].start
    /\ Cardinality(TokenCalls) <= Len(text)

\* C12: a call whose first character after the whitespace matches no dispatch
\* branch returns None, the value returned at end of input; it has skipped the
\* whitespace before the character and taken the character alone, so the
\* cursor is just past it and the next call starts there.
UnrecognizedReturnsEnd ==
    \A i \in 1..Len(hist) :
        Rejected(i) =>
            /\ hist[i].result = [type |-> "None"]
            /\ \A j \in 1..Len(hist) : hist[j].span = <<>> => hist[j].result = hist[i].result
            /\ hist[i].ws = SubSeq(text, hist[i].start + 1, SpanStart(i))
            /\ \A k \in 1..Len(hist[i].ws) : is_whitespace(hist[i].ws[k])
            /\ hist[i].span = <<text[SpanStart(i) + 1]>>
            /\ i < Len(hist) => hist[i + 1].start = SpanStart(i) + 1
            /\ (i = Len(hist) /\ ~panicked) => pos = SpanStart(i) + 1

UnrecognizedReturnsEndWitness ==
    \E i \in 1..(Len(hist) - 1) :
        /\ Rejected(i)
        /\ hist[i].ws # <<>>
        /\ hist[i + 1].result # None

\* C13: a call that commits one of = + - * / ^ ; ( ) returns Equal, Plus,
\* Minus, Star, Slash, Caret, SemiColon, LParen, RParen respectively and takes
\* that character alone, whatever follows it; "==" gives Equal, Equal.
SingleCharDispatch ==
    /\ \A i \in 1..Len(hist) :
          (hist[i].span # <<>> /\ hist[i].span[1] \in {"=", "+", "-", "*", "/", "^", ";", "(", ")"}) =>
              LET c == hist[i].span[1] IN
              /\ hist[i].result.type =
                    CASE c = "=" -> "Equal" [] c = "+" -> "Plus" [] c = "-" -> "Minus"
                      [] c = "*" -> "Star" [] c = "/" -> "Slash" [] c = "^" -> "Caret"
                      [] c = ";" -> "SemiColon" [] c = "(" -> "LParen" [] c = ")" -> "RParen"
              /\ DOMAIN hist[i].result = {"type"}
              /\ hist[i].span = <<c>>
              /\ text[SpanStart(i) + 1] = c
              /\ i < Len(hist) => hist[i + 1].start = SpanStart(i) + 1
              /\ (i = Len(hist) /\ ~panicked) => pos = SpanStart(i) + 1
    /\ (text = <<"=", "=", "-", ";">> /\ Len(hist) >= 2) =>
          (hist[1].result.type = "Equal" /\ hist[2].result.type = "Equal")

SingleCharDispatchWitness ==
    /\ text = ParenExpr
    /\ Len(hist) >= 9
    /\ hist[1].result.type = "LParen"
    /\ hist[5].result.type = "RParen"

\* C14: a call that commits a letter or an underscore takes the longest run
\* of alphanumeric or underscore characters that follows and stops at the
\* first other character or at the end of the text; that character is not
\* taken and is the first one the next call takes.
WordChars == Alphabetic \cup Digits \cup {"_"}

IdentifierMaximalMunch ==
    \A i \in 1..Len(hist) :
        ScannedIdentifier(i) =>
            /\ hist[i].span = SubSeq(text, SpanStart(i) + 1, SpanEnd(i))
            /\ \A k \in 2..Len(hist[i].span) : hist[i].span[k] \in WordChars
            /\ SpanEnd(i) < Len(text) => text[SpanEnd(i) + 1] \notin WordChars
            /\ i < Len(hist) =>
                  /\ hist[i + 1].start = SpanEnd(i)
                  /\ SpanEnd(i) < Len(text) =>
                        (hist[i + 1].ws \o hist[i + 1].span)[1] = text[SpanEnd(i) + 1]
            /\ (i = Len(hist) /\ ~panicked) => pos = SpanEnd(i)

IdentifierMaximalMunchWitness ==
    \E i \in 1..(Len(hist) - 1) :
        /\ ScannedIdentifier(i)
        /\ Len(hist[i].span) >= 2
        /\ \E k \in 2..Len(hist[i].span) : is_digit(hist[i].span[k]) \/ hist[i].span[k] = "_"
        /\ SpanEnd(i) < Len(text)
        /\ hist[i + 1].span = <<text[SpanEnd(i) + 1]>>

\* C15: a call that commits a decimal digit takes the whole run of digits
\* and '.' that follows, second and later '.' included, before it parses, and
\* leaves the first other character untaken; over "1.2.3" all five
\* characters are taken into one literal text (whose parse then fails).
NumberChars == Digits \cup {"."}

\* the run of the call that panicked
FailedRun == SelectSeq(SubSeq(text, LastEnd + 1, pos), LAMBDA c : ~is_whitespace(c))

NumberScanUnvalidated ==
    /\ \A i \in 1..Len(hist) :
          ScannedNumber(i) =>
              /\ hist[i].span = SubSeq(text, SpanStart(i) + 1, SpanEnd(i))
              /\ \A k \in 1..Len(hist[i].span) : hist[i].span[k] \in NumberChars
              /\ SpanEnd(i) < Len(text) => text[SpanEnd(i) + 1] \notin NumberChars
              /\ i < Len(hist) => hist[i + 1].start = SpanEnd(i)
              /\ (i = Len(hist) /\ ~panicked) => pos = SpanEnd(i)
    /\ panicked =>
          /\ FailedRun # <<>>
          /\ FailedRun[1] \in Digits
          /\ \A k \in 1..Len(FailedRun) : FailedRun[k] \in NumberChars
          /\ Cardinality(DotsOf(FailedRun)) >= 2
          /\ pos < Len(text) => text[pos + 1] \notin NumberChars
    /\ (text = <<"1", ".", "2", ".", "3">> /\ pos > 0) =>
          (pos = 5 /\ hist = <<>> /\ FailedRun = text)

NumberScanUnvalidatedWitness ==
    /\ text = <<"1", ".", "2", ".", "3">>
    /\ panicked
    /\ pos = 5

\* C16: a '.' committed as the first character of a call is not taken into a
\* number: the call takes it alone and returns None, as in ".5" and in "x.5"
\* after the identifier x.
LeadingDotRejected ==
    /\ \A i \in 1..Len(hist) :
          /\ (hist[i].span # <<>> /\ text[SpanStart(i) + 1] = ".") =>
                (hist[i].result = [type |-> "None"] /\ hist[i].span = <<".">>)
          /\ hist[i].result.type = "NumberLiteral" => hist[i].span[1] # "."
    /\ (text # <<>> /\ text[1] = "." /\ pos > 0) =>
          (hist # <<>> /\ hist[1].result = [type |-> "None"] /\ hist[1].span = <<".">>)
    /\ (text = <<"x", ".", "5">> /\ Len(hist) >= 3) =>
          /\ hist[1].result = [type |-> "Identifier", text |-> <<"x">>]
          /\ hist[2].result = [type |-> "None"]
          /\ hist[3].result = [type |-> "NumberLiteral", value |-> Dec(5, 0)]

LeadingDotRejectedWitness ==
    /\ text = <<"x", ".", "5">>
    /\ Len(hist) >= 3
    /\ hist[2].span = <<".">>
    /\ hist[3].result.type = "NumberLiteral"

\* C17: peek_char leaves the cursor where it was; consecutive peek_char
\* calls with no read between them return the same character, or the same
\* end-of-input signal; peek_char calls put between the next_token calls do
\* not change the results of the next_token calls.
RECURSIVE Pulled(_)
\* the records of the first n next_token calls when no other call is made
Pulled(n) ==
    IF n = 0 THEN <<>>
    ELSE LET before == Pulled(n - 1)
             p == IF n = 1 THEN 0
                  ELSE before[n - 1].start + Len(before[n - 1].ws) + Len(before[n - 1].span)
             t == next_token(text, p)
         IN Append(before, [start |-> p, ws |-> t.ws, span |-> t.span, result |-> t.result])

IdempotentPeek ==
    /\ \A k \in 1..Len(peeks) :
          peeks[k] = IF pos < Len(text) THEN <<text[pos + 1]>> ELSE <<>>
    /\ ~panicked => pos = LastEnd
    /\ hist = Pulled(Len(hist))

IdempotentPeekWitness ==
    /\ Len(peeks) >= 2
    /\ Len(hist) >= 1
    /\ hist[Len(hist)].result # None
    /\ pos < Len(text)
    /\ peeks[1] = <<text[pos + 1]>>

\* C18: the cursor stays between 0 and the length of the text and never
\* moves back; a call of next_token moves it by exactly the number of
\* characters its read_char calls returned, which are the characters of the
\* text at the places passed, in order; a read_char at the end of the text
\* returns the empty signal and leaves the cursor where it is.
CursorMonotone ==
    [][ /\ 0 <= pos /\ pos <= pos' /\ pos' <= Len(text)
        /\ hist' # hist =>
              LET h == hist'[Len(hist')] IN
              /\ h.start = pos
              /\ pos' = pos + Len(h.ws) + Len(h.span)
              /\ h.ws \o h.span = SubSeq(text, pos + 1, pos')
              /\ h.span = <<>> => (pos' = Len(text) /\ h.result = None)
              /\ pos = Len(text) => (pos' = pos /\ h.span = <<>> /\ h.ws = <<>>)
      ]_vars

CursorMonotoneWitness ==
    /\ Len(text) >= 2
    /\ pos = Len(text)
    /\ Len(hist) >= 3
    /\ hist[Len(hist)].start = Len(text)
    /\ hist[Len(hist)].span = <<>>
    /\ hist[Len(hist) - 1].span = <<>>

\* C19: the parse of read_number fails, and the process panics, exactly when
\* the run of digits and '.' it took has two or more '.'; a run with no '.'
\* or one '.' parses, also when it ends with the '.': "3." gives
\* NumberLiteral(3.0).
ParseFailsIffTwoDots ==
    /\ \A i \in 1..Len(hist) :
          ScannedNumber(i) =>
              /\ Cardinality(DotsOf(hist[i].span)) <= 1
              /\ hist[i].result.type = "NumberLiteral"
              /\ hist[i].span[Len(hist[i].span)] = "." =>
                    hist[i].result.value =
                        Dec(DigitsToInt(SubSeq(hist[i].span, 1, Len(hist[i].span) - 1)), 0)
    /\ \A i \in 1..Len(hist) :
          \A j \in (SpanStart(i) + 1)..SpanEnd(i) : \A k \in (j + 1)..SpanEnd(i) :
              (text[j] = "." /\ text[k] = ".") => ~ScannedNumber(i)
    /\ panicked => (Cardinality(DotsOf(FailedRun)) >= 2 /\ FailedRun[1] \in Digits)
    /\ (text \in {<<"1", ".", "2", ".", "3">>, <<"1", ".", ".">>} /\ pos > 0) => panicked
    /\ (text \in {<<"1", ".", "2">>, <<"1", ".">>, <<"3", ".">>, <<"1", "2">>} /\ pos > 0) => ~panicked
    /\ (text = <<"3", ".">> /\ hist # <<>>) =>
          hist[1].result = [type |-> "NumberLiteral", value |-> Dec(3, 0)]

ParseFailsIffTwoDotsWitness ==
    /\ text = <<"3", ".">>
    /\ Len(hist) >= 1
    /\ hist[1].span = text

====
